---- MODULE Spec2Model ----
(***************************************************************************)
(* git-repo-sync: the reconciler Sync::unidirectional (src/src/sync.rs)    *)
(* and the two executors Sync::execute_local and Sync::execute_remote,     *)
(* modelled as a state machine over a small universe of paths.             *)
(***************************************************************************)
EXTENDS Integers, Sequences, FiniteSets, TLC

VARIABLES
    source,     \* DirectoryScanList handed to unidirectional as source
    target,     \* DirectoryScanList handed to unidirectional as target
    frame,      \* the locals of Sync::unidirectional while it runs
    sync,       \* the Sync (Plan) it returned
    pc,         \* position of the program
    command,    \* "up" (execute_remote), "down" (execute_local), "none"
    tree,       \* the target endpoint's tree: [dirs, files]
    tree0,      \* the target endpoint's tree before the apply
    ignored,    \* paths the ignore rules of the local root drop
    cwd,        \* [is_local, dirs]: the process's working directory
    idx,        \* index of the current element of the loop at pc
    stdin,      \* instructions written to the sftp process so far
    sftp,       \* the sftp process: [pos, status, closed]
    issued,     \* every operation the executor issued, in order
    result,     \* what run returned: "none", "ok", "err"
    dry,        \* the dry-run flag of the command line
    stdout,     \* the lines print_sync_dry printed
    exit,       \* the exit of the process: [status, stderr]
    flt,        \* the locals of filter_by_gitignore while it runs
    scn         \* the locals of from_remote_over_ssh while it runs

vars == <<source, target, frame, sync, pc, command, tree, tree0, ignored,
          cwd, idx, stdin, sftp, issued, result, dry, stdout, exit, flt, scn>>

----------------------------------------------------------------------------
(* Bounds and the universe of inputs.                                      *)

\* Most entries (directories plus files) of one snapshot of the reconciler runs.
MaxEntries == 2
\* Most entries (directories plus files) of one tree of the executor runs.
MaxTree == 3

\* The most entries of a list filter_by_gitignore is given.
MaxFilter == 2

\* The most lines of the output of the remote find.
MaxLines == 2

\* The room of the pipe that takes the output of sftp, in the units of
\* output.
PipeCapacity == 3

\* Relative paths as sequences of components; a component is a number that
\* stands for a name, ordered as the names are ("a" = 1, "b" = 2).
Paths == {<<1>>, <<1, 1>>, <<1, 2>>, <<2>>}

\* File sizes in bytes.
Sizes == {1, 2}

\* The sequences that hold every element of S exactly once.
Perms(S) ==
    {s \in [1..Cardinality(S) -> S] :
        \A i, j \in 1..Cardinality(S) : i # j => s[i] # s[j]}

Range(s) == {s[i] : i \in 1..Len(s)}

PathsOf(s) == {s[i].path : i \in 1..Len(s)}

\* fs.rs: Directory { path } and File { path, size }.
Directory(p) == [path |-> p]
File(p, n) == [path |-> p, size |-> n]

\* scan.rs: DirectoryScanList { directories, files }.
DirectoryScanList(ds, fs) == [directories |-> ds, files |-> fs]

----------------------------------------------------------------------------
(* Sync::unidirectional.                                                   *)

\* std::path::Path::cmp: lexicographic over the components.
RECURSIVE cmp(_, _)
cmp(p, q) ==
    IF p = <<>> THEN (IF q = <<>> THEN "Equal" ELSE "Less")
    ELSE IF q = <<>> THEN "Greater"
    ELSE IF Head(p) < Head(q) THEN "Less"
    ELSE IF Head(p) > Head(q) THEN "Greater"
    ELSE cmp(Tail(p), Tail(q))

\* Insert e into the sorted sequence s after every element whose key is not
\* greater (the sort is stable).
RECURSIVE insert_sorted(_, _)
insert_sorted(s, e) ==
    IF s = <<>> THEN <<e>>
    ELSE IF cmp(e.path, Head(s).path) = "Less" THEN <<e>> \o s
    ELSE <<Head(s)>> \o insert_sorted(Tail(s), e)

RECURSIVE sort_from(_, _)
sort_from(done, rest) ==
    IF rest = <<>> THEN done
    ELSE sort_from(insert_sorted(done, Head(rest)), Tail(rest))

\* A mutant of sort_by_key: the entries stay in the order of the input.
sort_by_key_unsorted(s) == s

\* Vec::sort_by_key(|e| e.path.clone()).
sort_by_key(s) == sort_from(<<>>, s)

\* The locals of unidirectional after into_parts (sync.rs 20-26).
into_parts(src, tgt) ==
    [source_directories |-> src.directories,
     source_files       |-> src.files,
     target_directories |-> tgt.directories,
     target_files       |-> tgt.files,
     remove_files       |-> <<>>,
     remove_directories |-> <<>>,
     create_directories |-> <<>>,
     copy_files         |-> <<>>,
     panicked           |-> FALSE]

\* A mutant of the first sort: the directories stay in the order of the input.
sort_directories_skipped(f) == f

\* sync.rs 28-31.
sort_directories(f) ==
    [f EXCEPT !.source_directories = sort_by_key(@),
              !.target_directories = sort_by_key(@)]

\* A mutant of the second sort: the files stay in the order of the input.
sort_files_skipped(f) == f

\* sync.rs 70-73.
sort_files(f) ==
    [f EXCEPT !.source_files = sort_by_key(@),
              !.target_files = sort_by_key(@)]

\* pop_front().unwrap() on the queue named q: panics on an empty queue.
pop_front(f, q) ==
    IF f[q] = <<>> THEN [f EXCEPT !.panicked = TRUE]
    ELSE [f EXCEPT ![q] = Tail(@)]

\* Vec::push on the list named l.
push(f, l, p) == [f EXCEPT ![l] = Append(@, p)]

directories_done(f) == f.source_directories = <<>> /\ f.target_directories = <<>>

files_done(f) == f.source_files = <<>> /\ f.target_files = <<>>

\* A mutant of the directory merge: a directory the target lacks is put on
\* remove_directories, one the source lacks on create_directories.
merge_directories_swapped(f) ==
    LET s == f.source_directories
        t == f.target_directories
        c == IF s # <<>> /\ t # <<>> THEN cmp(s[1].path, t[1].path)
             ELSE IF s # <<>> THEN "Less" ELSE "Greater"
    IN  CASE c = "Equal"   -> pop_front(pop_front(f, "source_directories"), "target_directories")
          [] c = "Less"    -> push(pop_front(f, "source_directories"), "remove_directories", s[1].path)
          [] c = "Greater" -> push(pop_front(f, "target_directories"), "create_directories", t[1].path)

\* A mutant of the directory merge: a directory the source lacks is put on
\* remove_directories and left at the front of its queue.
merge_directories_no_pop(f) ==
    LET s == f.source_directories
        t == f.target_directories
        c == IF s # <<>> /\ t # <<>> THEN cmp(s[1].path, t[1].path)
             ELSE IF s # <<>> THEN "Less" ELSE "Greater"
    IN  CASE c = "Equal"   -> pop_front(pop_front(f, "source_directories"), "target_directories")
          [] c = "Less"    -> push(pop_front(f, "source_directories"), "create_directories", s[1].path)
          [] c = "Greater" -> push(f, "remove_directories", t[1].path)

\* One iteration of the first loop that does not break (sync.rs 32-68).
merge_directories(f) ==
    LET s == f.source_directories
        t == f.target_directories
        c == IF s # <<>> /\ t # <<>> THEN cmp(s[1].path, t[1].path)
             ELSE IF s # <<>> THEN "Less" ELSE "Greater"
    IN  CASE c = "Equal"   -> pop_front(pop_front(f, "source_directories"), "target_directories")
          [] c = "Less"    -> push(pop_front(f, "source_directories"), "create_directories", s[1].path)
          [] c = "Greater" -> push(pop_front(f, "target_directories"), "remove_directories", t[1].path)

\* A mutant of the file merge: files of equal path are never copied.
merge_files_no_size(f) ==
    LET s == f.source_files
        t == f.target_files
        c == IF s # <<>> /\ t # <<>> THEN cmp(s[1].path, t[1].path)
             ELSE IF s # <<>> THEN "Less" ELSE "Greater"
    IN  CASE c = "Equal"   -> pop_front(pop_front(f, "source_files"), "target_files")
          [] c = "Less"    -> push(pop_front(f, "source_files"), "copy_files", s[1].path)
          [] c = "Greater" -> push(pop_front(f, "target_files"), "remove_files", t[1].path)

\* A mutant of the file merge: a file of equal path and different size is
\* removed as well as copied.
merge_files_remove_changed(f) ==
    LET s == f.source_files
        t == f.target_files
        c == IF s # <<>> /\ t # <<>> THEN cmp(s[1].path, t[1].path)
             ELSE IF s # <<>> THEN "Less" ELSE "Greater"
        popped == pop_front(pop_front(f, "source_files"), "target_files")
    IN  CASE c = "Equal"   -> IF s[1].size # t[1].size
                              THEN push(push(popped, "remove_files", t[1].path),
                                        "copy_files", s[1].path)
                              ELSE popped
          [] c = "Less"    -> push(pop_front(f, "source_files"), "copy_files", s[1].path)
          [] c = "Greater" -> push(pop_front(f, "target_files"), "remove_files", t[1].path)

\* One iteration of the second loop that does not break (sync.rs 74-109).
merge_files(f) ==
    LET s == f.source_files
        t == f.target_files
        c == IF s # <<>> /\ t # <<>> THEN cmp(s[1].path, t[1].path)
             ELSE IF s # <<>> THEN "Less" ELSE "Greater"
        popped == pop_front(pop_front(f, "source_files"), "target_files")
    IN  CASE c = "Equal"   -> IF s[1].size # t[1].size
                              THEN push(popped, "copy_files", s[1].path)
                              ELSE popped
          [] c = "Less"    -> push(pop_front(f, "source_files"), "copy_files", s[1].path)
          [] c = "Greater" -> push(pop_front(f, "target_files"), "remove_files", t[1].path)

\* The Sync the function returns (sync.rs 111-116).
Sync(f) ==
    [remove_directories |-> f.remove_directories,
     remove_files       |-> f.remove_files,
     create_directories |-> f.create_directories,
     copy_files         |-> f.copy_files]

RECURSIVE run_directories(_)
run_directories(f) ==
    IF directories_done(f) \/ f.panicked THEN f
    ELSE run_directories(merge_directories(f))

RECURSIVE run_files(_)
run_files(f) ==
    IF files_done(f) \/ f.panicked THEN f
    ELSE run_files(merge_files(f))

\* Sync::unidirectional as a function of its two arguments.
unidirectional(src, tgt) ==
    Sync(run_files(sort_files(run_directories(sort_directories(into_parts(src, tgt))))))

NoFrame == into_parts(DirectoryScanList(<<>>, <<>>), DirectoryScanList(<<>>, <<>>))
NoSync == Sync(NoFrame)
NoTree == [dirs |-> {}, files |-> {}]

----------------------------------------------------------------------------
(* Trees, enumeration and the ignore filter.                               *)

parent(p) == SubSeq(p, 1, Len(p) - 1)

prefixes(p) == {SubSeq(p, 1, k) : k \in 1..Len(p)}

file_paths(t) == {f.path : f \in t.files}

entry_paths(t) == t.dirs \cup file_paths(t)

\* std::fs::read_dir(d): the entries directly inside directory d.
read_dir(t, d) == {q \in entry_paths(t) : Len(q) = Len(d) + 1 /\ parent(q) = d}

\* A tree is well formed when no path is both a directory and a file, no two
\* files share a path, and every entry below the root is inside a directory.
IsTree(t) ==
    /\ t.dirs \cap file_paths(t) = {}
    /\ \A f, g \in t.files : f.path = g.path => f = g
    /\ \A p \in entry_paths(t) : Len(p) > 1 => parent(p) \in t.dirs

\* The order of a recursive walk: a directory before its contents; the
\* entries of one directory in the order the file system lists them, here
\* the descending order of their names.
walk_before(p, q) ==
    cmp([i \in 1..Len(p) |-> 0 - p[i]], [i \in 1..Len(q) |-> 0 - q[i]]) = "Less"

RECURSIVE walk(_)
walk(S) ==
    IF S = {} THEN <<>>
    ELSE LET e == CHOOSE e \in S : \A o \in S \ {e} : walk_before(e.path, o.path)
         IN  <<e>> \o walk(S \ {e})

\* from_local_file_system / from_remote_over_ssh followed by
\* filter_by_gitignore: the entries of the tree that the ignore rules keep.
scan(t, ign) ==
    DirectoryScanList(walk({Directory(d) : d \in t.dirs \ ign}),
                      walk({f \in t.files : f.path \notin ign}))

----------------------------------------------------------------------------
(* The executors.                                                          *)

\* A mutant of execute_local's order: directories are created before
\* anything is removed.
local_steps_create_first ==
    <<"create_directories", "remove_files", "remove_directories",
      "spawn", "copy_files", "wait">>

\* execute_local, statement by statement (sync.rs 209-252).
local_steps ==
    <<"remove_files", "remove_directories", "create_directories",
      "spawn", "copy_files", "wait">>

\* A mutant of execute_remote: remove_directories is written as rmdir
\* instructions after the rm instructions.
remote_steps_with_rmdir ==
    <<"spawn", "remove_files", "remove_directories", "create_directories",
      "copy_files", "wait">>

\* A mutant of execute_remote: the mkdir instructions are written first.
remote_steps_create_first ==
    <<"spawn", "create_directories", "remove_files", "copy_files", "wait">>

\* A mutant of execute_remote: the put instructions are not written.
remote_steps_without_put ==
    <<"spawn", "remove_files", "create_directories", "wait">>

\* A mutant of execute_remote: the rm instructions are not written.
remote_steps_without_rm ==
    <<"spawn", "create_directories", "copy_files", "wait">>

\* execute_remote, statement by statement (sync.rs 138-187).
remote_steps ==
    <<"spawn", "remove_files", "create_directories", "copy_files", "wait">>

steps == IF command = "down" THEN local_steps ELSE remote_steps

step == IF pc = "execute" /\ idx.step <= Len(steps) THEN steps[idx.step] ELSE "none"

Loops == {"remove_files", "remove_directories", "create_directories", "copy_files"}

\* The list of the Sync the loop at the current step runs over.
list == IF step \in Loops THEN sync[step] ELSE <<>>

in_loop == step \in Loops /\ idx.i <= Len(list)

\* The instruction execute_remote writes for a path of each list, and the
\* one execute_local writes for a file to copy.
instruction(s, cmd_of_copy, p) ==
    [cmd  |-> CASE s = "remove_files"       -> "rm"
                [] s = "remove_directories" -> "rmdir"
                [] s = "create_directories" -> "mkdir"
                [] s = "copy_files"         -> cmd_of_copy,
     path |-> p]

\* The log of issued operations. The outcome of an operation is "done", or
\* "kept" (a directory left in place), or "error" (the call failed because of
\* what the tree holds), or "fault" (the call failed for another reason, such
\* as a permission or a lost pipe).
issue(s, p, o) == Append(issued, [category |-> s, path |-> p, outcome |-> o])

next_i == [idx EXCEPT !.i = @ + 1]

\* A mutant of the error return: the error is noted and the executor goes on.
fail_and_go_on ==
    /\ result' = "err"
    /\ pc' = pc

fail == /\ result' = "err"
        /\ pc' = "done"

\* A mutant of the emptiness test: every directory counts as empty.
is_empty_always(t, d) == TRUE

\* read_dir(..).next().is_none() (sync.rs 216-219).
is_empty(t, d) == read_dir(t, d) = {}

\* std::fs::create_dir_all(p) in directory set ds, none of whose entries is
\* a file: p and its missing ancestors become directories.
create_dir_all(ds, p) == ds \cup prefixes(p)

\* create_dir_all(directory) resolves the relative path against the working
\* directory: it lands under local_path only if that is the working
\* directory (sync.rs 226).
created_under(c) == c.is_local

\* The size of the file the source holds at path p.
source_size(p) == (CHOOSE f \in Range(source.files) : f.path = p).size

\* The path a put or get of p writes: into the directory, under the file's
\* own name, when the destination is an existing directory.
destination(t, p) == IF p \in t.dirs THEN Append(p, p[Len(p)]) ELSE p

\* The effect of one sftp instruction on the tree it changes. In batch mode
\* a failing instruction ends the session.
sftp_apply(t, ins) ==
    LET p == ins.path
        d == destination(t, p)
    IN  CASE ins.cmd = "rm" ->
               IF p \in file_paths(t)
               THEN [ok |-> TRUE, tree |-> [t EXCEPT !.files = {f \in @ : f.path # p}]]
               ELSE [ok |-> FALSE, tree |-> t]
          [] ins.cmd = "rmdir" ->
               IF p \in t.dirs /\ read_dir(t, p) = {}
               THEN [ok |-> TRUE, tree |-> [t EXCEPT !.dirs = @ \ {p}]]
               ELSE [ok |-> FALSE, tree |-> t]
          [] ins.cmd = "mkdir" ->
               IF p \notin entry_paths(t) /\ (Len(p) > 1 => parent(p) \in t.dirs)
               THEN [ok |-> TRUE, tree |-> [t EXCEPT !.dirs = @ \cup {p}]]
               ELSE [ok |-> FALSE, tree |-> t]
          [] ins.cmd \in {"put", "get"} ->
               IF d \notin t.dirs /\ (Len(d) > 1 => parent(d) \in t.dirs)
               THEN [ok |-> TRUE,
                     tree |-> [t EXCEPT !.files = {f \in @ : f.path # d}
                                                  \cup {File(d, source_size(p))}]]
               ELSE [ok |-> FALSE, tree |-> t]

----------------------------------------------------------------------------
(* Actions of Sync::unidirectional.                                        *)

exec_vars == <<command, tree, tree0, ignored, cwd, idx, stdin, sftp, issued, result>>

\* The flag, the output and the exit of the process.
io_vars == <<dry, stdout, exit>>

\* The locals of the two functions of scan.rs that talk to a process.
scan_vars == <<flt, scn>>

Call ==
    /\ pc = "call"
    /\ frame' = into_parts(source, target)
    /\ pc' = "sort_directories"
    /\ UNCHANGED <<source, target, sync, exec_vars, io_vars, scan_vars>>

SortDirectories ==
    /\ pc = "sort_directories"
    /\ frame' = sort_directories(frame)
    /\ pc' = "merge_directories"
    /\ UNCHANGED <<source, target, sync, exec_vars, io_vars, scan_vars>>

MergeDirectories ==
    /\ pc = "merge_directories"
    /\ ~directories_done(frame)
    /\ frame' = merge_directories(frame)
    /\ pc' = IF frame'.panicked THEN "panicked" ELSE pc
    /\ UNCHANGED <<source, target, sync, exec_vars, io_vars, scan_vars>>

SortFiles ==
    /\ pc = "merge_directories"
    /\ directories_done(frame)
    /\ frame' = sort_files(frame)
    /\ pc' = "merge_files"
    /\ UNCHANGED <<source, target, sync, exec_vars, io_vars, scan_vars>>

MergeFiles ==
    /\ pc = "merge_files"
    /\ ~files_done(frame)
    /\ frame' = merge_files(frame)
    /\ pc' = IF frame'.panicked THEN "panicked" ELSE pc
    /\ UNCHANGED <<source, target, sync, exec_vars, io_vars, scan_vars>>

Return ==
    /\ pc = "merge_files"
    /\ files_done(frame)
    /\ sync' = Sync(frame)
    /\ pc' = "returned"
    /\ UNCHANGED <<source, target, frame, exec_vars, io_vars, scan_vars>>

----------------------------------------------------------------------------
(* Actions of the executors.                                               *)

rec_vars == <<source, target, frame, sync>>

\* A mutant of the dry-run test: the Sync is executed whatever the flag is.
executes_always(d) == TRUE

\* main.rs 140 and 153: if !dry.
executes(d) == ~d

\* The lines print_sync_dry prints for a Sync (main.rs 179-210).
labelled(label, l) == [i \in 1..Len(l) |-> [label |-> label, path |-> l[i]]]

print_sync_dry(sy) ==
    labelled("remove file", sy.remove_files)
        \o labelled("remove directory", sy.remove_directories)
        \o labelled("create directory", sy.create_directories)
        \o labelled("copy file", sy.copy_files)

\* The exit status of the process: main returns normally whether run
\* returned Ok or Err (main.rs 79-86).
exit_status(res) == 0

\* main.rs 113-134: an enumeration or the ignore filter fails, and run
\* returns the error before it reconciles.
RunFails ==
    /\ pc = "call"
    /\ command \in {"up", "down"}
    /\ fail
    /\ UNCHANGED <<rec_vars, io_vars, scan_vars, command, tree, tree0, ignored, cwd, idx,
                   stdin, sftp, issued>>

\* main.rs 145-146 and 158-159: the Sync is printed and run returns Ok.
PrintDry ==
    /\ pc = "returned"
    /\ command \in {"up", "down"}
    /\ ~executes(dry)
    /\ stdout' = print_sync_dry(sync)
    /\ result' = "ok"
    /\ pc' = "done"
    /\ UNCHANGED <<rec_vars, scan_vars, dry, exit, command, tree, tree0, ignored, cwd, idx,
                   stdin, sftp, issued>>

\* main.rs 79-86: main prints the error of run, if any, and returns.
Main ==
    /\ pc = "done"
    /\ exit' = [status |-> exit_status(result),
                stderr |-> IF result = "err" THEN 1 ELSE 0]
    /\ pc' = "exited"
    /\ UNCHANGED <<rec_vars, scan_vars, dry, stdout, command, tree, tree0, ignored, cwd, idx,
                   stdin, sftp, issued, result>>

\* main.rs 140-141 and 153-154: the Sync is executed.
Execute ==
    /\ pc = "returned"
    /\ command \in {"up", "down"}
    /\ executes(dry)
    /\ pc' = "execute"
    /\ idx' = [step |-> 1, i |-> 1]
    /\ UNCHANGED <<rec_vars, io_vars, scan_vars, command, tree, tree0, ignored, cwd, stdin, sftp,
                   issued, result>>

\* A loop over a list of the Sync is over: on to the next statement.
NextStep ==
    /\ step \in Loops
    /\ idx.i > Len(list)
    /\ idx' = [step |-> idx.step + 1, i |-> 1]
    /\ UNCHANGED <<rec_vars, io_vars, scan_vars, pc, command, tree, tree0, ignored, cwd, stdin, sftp,
                   issued, result>>

\* sync.rs 209-211: std::fs::remove_file(local_path.join(file)).
LocalRemoveFile ==
    /\ command = "down" /\ step = "remove_files" /\ in_loop
    /\ LET p == list[idx.i] IN
       \E ok \in BOOLEAN :
            IF ok /\ p \in file_paths(tree)
            THEN /\ tree' = [tree EXCEPT !.files = {f \in @ : f.path # p}]
                 /\ issued' = issue(step, p, "done")
                 /\ idx' = next_i
                 /\ UNCHANGED <<pc, result>>
            ELSE /\ fail
                 /\ issued' = issue(step, p, IF ok THEN "error" ELSE "fault")
                 /\ UNCHANGED <<tree, idx>>
    /\ UNCHANGED <<rec_vars, io_vars, scan_vars, command, tree0, ignored, cwd, stdin, sftp>>

\* sync.rs 212-224: the directory is removed only if read_dir finds it empty.
LocalRemoveDirectory ==
    /\ command = "down" /\ step = "remove_directories" /\ in_loop
    /\ LET d == list[idx.i] IN
       \E ok \in BOOLEAN :
            IF ~ok \/ d \notin tree.dirs
            THEN \* read_dir fails
                 /\ fail
                 /\ issued' = issue(step, d, IF ok THEN "error" ELSE "fault")
                 /\ UNCHANGED <<tree, idx>>
            ELSE IF is_empty(tree, d)
            THEN \* std::fs::remove_dir fails on a directory that has entries
                 IF read_dir(tree, d) = {}
                 THEN \/ /\ tree' = [tree EXCEPT !.dirs = @ \ {d}]
                         /\ issued' = issue(step, d, "done")
                         /\ idx' = next_i
                         /\ UNCHANGED <<pc, result>>
                      \/ /\ fail
                         /\ issued' = issue(step, d, "fault")
                         /\ UNCHANGED <<tree, idx>>
                 ELSE /\ fail
                      /\ issued' = issue(step, d, "error")
                      /\ UNCHANGED <<tree, idx>>
            ELSE /\ issued' = issue(step, d, "kept")
                 /\ idx' = next_i
                 /\ UNCHANGED <<tree, pc, result>>
    /\ UNCHANGED <<rec_vars, io_vars, scan_vars, command, tree0, ignored, cwd, stdin, sftp>>

\* sync.rs 225-227: std::fs::create_dir_all(directory).
LocalCreateDirectory ==
    /\ command = "down" /\ step = "create_directories" /\ in_loop
    /\ LET d == list[idx.i] IN
       \E ok \in BOOLEAN :
            IF ~ok \/ (created_under(cwd) /\ prefixes(d) \cap file_paths(tree) # {})
            THEN /\ fail
                 /\ issued' = issue(step, d, IF ok THEN "error" ELSE "fault")
                 /\ UNCHANGED <<tree, cwd, idx>>
            ELSE /\ issued' = issue(step, d, "done")
                 /\ IF created_under(cwd)
                    THEN /\ tree' = [tree EXCEPT !.dirs = create_dir_all(@, d)]
                         /\ UNCHANGED cwd
                    ELSE /\ cwd' = [cwd EXCEPT !.dirs = create_dir_all(@, d)]
                         /\ UNCHANGED tree
                 /\ idx' = next_i
                 /\ UNCHANGED <<pc, result>>
    /\ UNCHANGED <<rec_vars, io_vars, scan_vars, command, tree0, ignored, stdin, sftp>>

\* sync.rs 138-149 and 228-237: the sftp process is spawned.
Spawn ==
    /\ step = "spawn"
    /\ \/ /\ sftp' = [sftp EXCEPT !.status = "running"]
          /\ idx' = [step |-> idx.step + 1, i |-> 1]
          /\ UNCHANGED <<pc, result>>
       \/ /\ fail
          /\ UNCHANGED <<sftp, idx>>
    /\ UNCHANGED <<rec_vars, io_vars, scan_vars, command, tree, tree0, ignored, cwd, stdin, issued>>

\* writeln! to the stdin of the sftp process: it fails once the process has
\* exited.
Write(cmd_of_copy) ==
    /\ in_loop
    /\ LET p == list[idx.i] IN
       IF sftp.status = "running"
       THEN /\ stdin' = Append(stdin, instruction(step, cmd_of_copy, p))
            /\ issued' = issue(step, p, "done")
            /\ idx' = next_i
            /\ UNCHANGED <<pc, result>>
       ELSE /\ fail
            /\ issued' = issue(step, p, "fault")
            /\ UNCHANGED <<stdin, idx>>
    /\ UNCHANGED <<rec_vars, io_vars, scan_vars, command, tree, tree0, ignored, cwd, sftp>>

\* sync.rs 238-246: one get instruction per file of copy_files.
LocalWriteGet ==
    /\ command = "down" /\ step = "copy_files"
    /\ Write("get")

\* sync.rs 157-181: the rm, mkdir and put instructions.
RemoteWrite ==
    /\ command = "up"
    /\ Write("put")

\* A mutant of the status test: the exit status of sftp is not looked at.
wait_result_ok(status) == "ok"

\* sync.rs 183-187 and 248-252: Ok if the exit status is success, else Err.
wait_result(status) == IF status = "ok" THEN "ok" ELSE "err"

\* Child::wait first closes the child's stdin.
CloseStdin ==
    /\ step = "wait"
    /\ ~sftp.closed
    /\ sftp' = [sftp EXCEPT !.closed = TRUE]
    /\ UNCHANGED <<rec_vars, io_vars, scan_vars, pc, command, tree, tree0, ignored, cwd, idx, stdin,
                   issued, result>>

\* sync.rs 182-187 and 247-252: the exit status of sftp decides the result.
Wait ==
    /\ step = "wait"
    /\ sftp.closed
    /\ sftp.status \in {"ok", "failed"}
    /\ result' = wait_result(sftp.status)
    /\ pc' = "done"
    /\ UNCHANGED <<rec_vars, io_vars, scan_vars, command, tree, tree0, ignored, cwd, idx, stdin, sftp,
                   issued>>

----------------------------------------------------------------------------
(* The sftp process.                                                       *)

\* The standard output and error of sftp are pipes that execute_local
\* holds and never reads (sync.rs 234-235); execute_remote gives it the
\* null device (sync.rs 144-147).
stdout_piped(c) == c = "down"

\* What sftp prints for an instruction, in units of pipe space: it echoes
\* the instruction and reports the transfer, more the longer the path is.
output(ins) == Len(ins.path)

\* A write to a pipe that nobody reads goes through while there is room.
can_print(ins) ==
    stdout_piped(command) => sftp.out + output(ins) <= PipeCapacity

\* sftp prints what it has to say about the next instruction of its batch
\* and executes it; it blocks while its output does not fit in the pipe.
SftpRun ==
    /\ sftp.status = "running"
    /\ sftp.pos < Len(stdin)
    /\ can_print(stdin[sftp.pos + 1])
    /\ LET r == sftp_apply(tree, stdin[sftp.pos + 1])
           printed_now == IF stdout_piped(command)
                          THEN sftp.out + output(stdin[sftp.pos + 1])
                          ELSE sftp.out
       IN
       /\ tree' = r.tree
       /\ sftp' = IF r.ok THEN [sftp EXCEPT !.pos = @ + 1, !.out = printed_now]
                  ELSE [sftp EXCEPT !.status = "failed", !.out = printed_now]
    /\ UNCHANGED <<rec_vars, io_vars, scan_vars, pc, command, tree0, ignored, cwd, idx, stdin, issued,
                   result>>

\* sftp reaches the end of its input and exits with success.
SftpExit ==
    /\ sftp.status = "running"
    /\ sftp.closed
    /\ sftp.pos = Len(stdin)
    /\ sftp' = [sftp EXCEPT !.status = "ok"]
    /\ UNCHANGED <<rec_vars, io_vars, scan_vars, pc, command, tree, tree0, ignored, cwd, idx, stdin,
                   issued, result>>

\* The session is lost (connection refused or dropped): sftp exits non-zero.
SftpAbort ==
    /\ sftp.status = "running"
    /\ sftp' = [sftp EXCEPT !.status = "failed"]
    /\ UNCHANGED <<rec_vars, io_vars, scan_vars, pc, command, tree, tree0, ignored, cwd, idx, stdin,
                   issued, result>>

----------------------------------------------------------------------------
(* DirectoryScanList::filter_by_gitignore.                                 *)
(* Text is a sequence of tokens, each standing for the characters it       *)
(* spells; ":", "!", "/", the tab and the newline are tokens of their own. *)

\* Everything a run of the program reads or writes.
run_vars == <<rec_vars, exec_vars, io_vars, pc>>

RECURSIVE split_from(_, _, _, _)
split_from(rest, c, cur, acc) ==
    IF rest = <<>> THEN Append(acc, cur)
    ELSE IF Head(rest) = c THEN split_from(Tail(rest), c, <<>>, Append(acc, cur))
    ELSE split_from(Tail(rest), c, Append(cur, Head(rest)), acc)

\* str::split: the pieces of s between the occurrences of c.
split(s, c) == split_from(s, c, <<>>, <<>>)

Whitespace == {" ", "\t", "\n"}

RECURSIVE trim_start(_)
trim_start(s) ==
    IF s # <<>> /\ Head(s) \in Whitespace THEN trim_start(Tail(s)) ELSE s

RECURSIVE trim_end(_)
trim_end(s) ==
    IF s # <<>> /\ s[Len(s)] \in Whitespace
    THEN trim_end(SubSeq(s, 1, Len(s) - 1))
    ELSE s

\* str::trim.
trim(s) == trim_end(trim_start(s))

\* str::starts_with.
starts_with(s, prefix) ==
    Len(s) >= Len(prefix) /\ SubSeq(s, 1, Len(prefix)) = prefix

\* to_slash_lossy: the components of a path joined by "/".
RECURSIVE to_slash_lossy(_)
to_slash_lossy(path) ==
    IF Len(path) <= 1 THEN path
    ELSE <<Head(path), "/">> \o to_slash_lossy(Tail(path))

\* The paths filter_by_gitignore is given, as components.
FilterPaths ==
    {<<".git">>, <<".git", "a">>, <<".gitignore">>, <<"a">>, <<"a", ".git">>,
     <<":a">>}

\* What git check-ignore answers for a path: the rule that decided it
\* (the file the rule is in, its line and its pattern), no rule at all, or
\* nothing because git is gone.
NoRule == [source |-> <<>>, linenum |-> <<>>, pattern |-> <<>>, eof |-> FALSE]
Eof == [source |-> <<>>, linenum |-> <<>>, pattern |-> <<>>, eof |-> TRUE]

Rules ==
    [source : {<<".gitignore">>, <<"a", ":", "b", "/", ".gitignore">>},
     linenum : {<<"1">>},
     pattern : {<<"a">>, <<"!", "a">>, <<":", "a">>},
     eof : {FALSE}]

Answers == {NoRule, Eof} \cup Rules

\* The line git check-ignore --verbose --non-matching writes for a path:
\* <source>:<linenum>:<pattern><TAB><path>, and what read_line returns
\* when the output has ended.
output_line(a, path) ==
    IF a.eof THEN <<>>
    ELSE a.source \o <<":">> \o a.linenum \o <<":">> \o a.pattern
           \o <<"\t">> \o to_slash_lossy(path) \o <<"\n">>

\* scan.rs 187-210: the line is split at the tab, the header at ':'.
is_output_line_match(line) ==
    LET output_cols == split(line, "\t")
        header_cols == split(output_cols[1], ":")
    IN  IF Len(header_cols) < 3 \/ Len(output_cols) < 2
        THEN [ok |-> FALSE, keep |-> FALSE]
        ELSE LET pattern == header_cols[3]
                 path == trim(output_cols[2])
                 is_git_dir == path = <<".git">> \/ starts_with(path, <<".git", "/">>)
             IN  [ok |-> TRUE,
                  keep |-> (pattern = <<>> \/ starts_with(pattern, <<"!">>))
                             /\ ~is_git_dir]

NoFilter ==
    [directories |-> <<>>, files |-> <<>>, answers |-> <<>>,
     matched_directories |-> <<>>, matched_files |-> <<>>, result |-> "idle"]

\* scan.rs 216-229: one directory is written to git and its answer read.
FilterDirectory ==
    /\ flt.result = "none"
    /\ Len(flt.answers) < Len(flt.directories)
    /\ \E a \in Answers :
         LET directory == flt.directories[Len(flt.answers) + 1]
             m == is_output_line_match(output_line(a, directory.path))
         IN  flt' = [flt EXCEPT
                       !.answers = Append(@, a),
                       !.matched_directories =
                           IF m.ok /\ m.keep THEN Append(@, directory) ELSE @,
                       !.result = IF m.ok THEN @ ELSE "err"]
    /\ UNCHANGED <<run_vars, scn>>

\* scan.rs 231-240: one file is written to git and its answer read.
FilterFile ==
    /\ flt.result = "none"
    /\ Len(flt.answers) >= Len(flt.directories)
    /\ Len(flt.answers) < Len(flt.directories) + Len(flt.files)
    /\ \E a \in Answers :
         LET file == flt.files[Len(flt.answers) - Len(flt.directories) + 1]
             m == is_output_line_match(output_line(a, file.path))
         IN  flt' = [flt EXCEPT
                       !.answers = Append(@, a),
                       !.matched_files = IF m.ok /\ m.keep THEN Append(@, file) ELSE @,
                       !.result = IF m.ok THEN @ ELSE "err"]
    /\ UNCHANGED <<run_vars, scn>>

\* The exit codes of git check-ignore; "none" when a signal ended it.
ExitCodes == {"0", "1", "128", "none"}

\* scan.rs 242-251: 0 and 1 are the exits of normal operation.
FilterWait ==
    /\ flt.result = "none"
    /\ Len(flt.answers) = Len(flt.directories) + Len(flt.files)
    /\ \E code \in ExitCodes :
         flt' = [flt EXCEPT !.result = IF code \in {"0", "1"} THEN "ok" ELSE "err"]
    /\ UNCHANGED <<run_vars, scn>>

----------------------------------------------------------------------------
(* DirectoryScanList::from_remote_over_ssh.                                *)

\* What the find on the remote reports: entries (path, type, size), each
\* printed as "%P %y %s\n", and lines that are no entry of the listing.
\* "<E9>" stands for a byte that is not valid UTF-8.
ReportedPaths ==
    {<<"a">>, <<"a", "/", "b">>, <<"a", " ", "b">>, <<" ", "a">>, <<"c", "<E9>">>}

Reported ==
    [path : ReportedPaths, type : {"f", "d"}, size : {<<"1">>, <<"1", "2">>}, entry : {TRUE}]

Garbage ==
    {[text |-> <<"motd">>, entry |-> FALSE],
     [text |-> <<"a", " ", "l", " ", "1">>, entry |-> FALSE]}

\* find -printf "%P %y %s\n".
printf(e) ==
    IF e.entry THEN e.path \o <<" ", e.type, " ">> \o e.size \o <<"\n">>
    ELSE e.text \o <<"\n">>

RECURSIVE output_of(_)
output_of(es) == IF es = <<>> THEN <<>> ELSE printf(Head(es)) \o output_of(Tail(es))

\* String::from_utf8(bytes).unwrap_or_default(): the empty string when a
\* byte of the output is not valid UTF-8.
from_utf8_or_default(bytes) == IF "<E9>" \in Range(bytes) THEN <<>> ELSE bytes

\* str::lines of trimmed text.
lines(text) == IF text = <<>> THEN <<>> ELSE split(text, "\n")

\* The place of the last c in s, 0 if there is none.
rfind(s, c) ==
    IF c \in Range(s) THEN CHOOSE k \in 1..Len(s) :
                              s[k] = c /\ \A j \in (k + 1)..Len(s) : s[j] # c
    ELSE 0

\* str::rsplit_once: what is before and after the last c, if there is one.
rsplit_once(s, c) ==
    LET k == rfind(s, c)
    IN  [some |-> k # 0,
         before |-> IF k = 0 THEN <<>> ELSE SubSeq(s, 1, k - 1),
         after |-> IF k = 0 THEN <<>> ELSE SubSeq(s, k + 1, Len(s))]

Digits == <<"0", "1", "2", "3", "4", "5", "6", "7", "8", "9">>

digit(t) == (CHOOSE k \in 1..Len(Digits) : Digits[k] = t) - 1

RECURSIVE parse_from(_, _)
parse_from(s, n) ==
    IF s = <<>> THEN n ELSE parse_from(Tail(s), 10 * n + digit(Head(s)))

\* str::parse::<u64>: [ok, value].
parse(s) ==
    IF s # <<>> /\ Range(s) \subseteq Range(Digits)
    THEN [ok |-> TRUE, value |-> parse_from(s, 0)]
    ELSE [ok |-> FALSE, value |-> 0]

\* scan.rs 101-125: what one line of the output becomes.
parse_line(line) ==
    LET p1 == rsplit_once(trim(line), " ")
        p2 == rsplit_once(trim(p1.before), " ")
        entry_size == p1.after
        entry_path == p2.before
        entry_type == trim(p2.after)
    IN  IF ~p1.some \/ ~p2.some THEN [ok |-> FALSE]
        ELSE IF entry_type = <<"f">>
             THEN IF parse(entry_size).ok
                  THEN [ok |-> TRUE, kind |-> "file",
                        entry |-> File(entry_path, parse(entry_size).value)]
                  ELSE [ok |-> FALSE]
        ELSE IF entry_type = <<"d">>
             THEN IF entry_path # <<>>
                  THEN [ok |-> TRUE, kind |-> "directory", entry |-> Directory(entry_path)]
                  ELSE [ok |-> TRUE, kind |-> "root"]
        ELSE [ok |-> FALSE]

ExitStatuses == {"0", "1", "255"}

NoScan ==
    [reported |-> <<>>, status |-> "0", stdout_lines |-> <<>>, i |-> 1,
     directories |-> <<>>, files |-> <<>>, pc |-> "idle", result |-> "none"]

\* scan.rs 62-97 and 127-152: the command has ended; a non-zero status is
\* an error, else the output is decoded, trimmed and cut into lines.
ScanOutput ==
    /\ scn.pc = "wait"
    /\ scn' = IF scn.status = "0"
              THEN [scn EXCEPT
                      !.stdout_lines =
                          lines(trim(from_utf8_or_default(output_of(scn.reported)))),
                      !.pc = "lines"]
              ELSE [scn EXCEPT !.pc = "done", !.result = "err"]
    /\ UNCHANGED <<run_vars, flt>>

\* scan.rs 100-126: one line is parsed.
ScanLine ==
    /\ scn.pc = "lines"
    /\ scn.i <= Len(scn.stdout_lines)
    /\ LET l == parse_line(scn.stdout_lines[scn.i])
       IN  scn' = IF ~l.ok THEN [scn EXCEPT !.pc = "done", !.result = "err"]
                  ELSE [scn EXCEPT
                          !.i = @ + 1,
                          !.files = IF l.kind = "file" THEN Append(@, l.entry) ELSE @,
                          !.directories =
                              IF l.kind = "directory" THEN Append(@, l.entry) ELSE @]
    /\ UNCHANGED <<run_vars, flt>>

\* scan.rs 127: Ok(DirectoryScanList { directories, files }).
ScanReturn ==
    /\ scn.pc = "lines"
    /\ scn.i > Len(scn.stdout_lines)
    /\ scn' = [scn EXCEPT !.pc = "done", !.result = "ok"]
    /\ UNCHANGED <<run_vars, flt>>

----------------------------------------------------------------------------
(* Specifications.                                                         *)

\* Every DirectoryScanList of at most n entries with unique paths, in every
\* order of its two lists.
Lists(D, FP) ==
    {DirectoryScanList(ds, fs) :
        ds \in Perms({Directory(d) : d \in D}),
        fs \in UNION {Perms({File(p, sz[p]) : p \in FP}) : sz \in [FP -> Sizes]}}

Snapshots(n) ==
    UNION {Lists(x[1], x[2]) :
             x \in {y \in (SUBSET Paths) \X (SUBSET Paths) :
                      /\ y[1] \cap y[2] = {}
                      /\ Cardinality(y[1]) + Cardinality(y[2]) <= n}}

\* Every well formed tree of at most n entries.
Trees(n) ==
    {t \in [dirs : SUBSET Paths, files : SUBSET [path : Paths, size : Sizes]] :
        IsTree(t) /\ Cardinality(t.dirs) + Cardinality(t.files) <= n}

\* The sets of ignored paths a target tree may hold next to a source tree:
\* what is inside an ignored directory is ignored, and the source snapshot,
\* filtered by the same rules, holds no ignored path.
Ignores(st, tt) ==
    {ign \in SUBSET entry_paths(tt) :
        /\ ign \cap entry_paths(st) = {}
        /\ \A p \in ign : \A q \in entry_paths(tt) :
             (Len(q) > Len(p) /\ SubSeq(q, 1, Len(p)) = p) => q \in ign}

InitIdle ==
    /\ frame = NoFrame
    /\ sync = NoSync
    /\ pc = "call"
    /\ idx = [step |-> 1, i |-> 1]
    /\ stdin = <<>>
    /\ sftp = [pos |-> 0, status |-> "none", closed |-> FALSE, out |-> 0]
    /\ issued = <<>>
    /\ result = "none"
    /\ stdout = <<>>
    /\ exit = [status |-> -1, stderr |-> 0]

\* No run of the program: only a function of scan.rs is called.
NoRun ==
    /\ source = DirectoryScanList(<<>>, <<>>)
    /\ target = DirectoryScanList(<<>>, <<>>)
    /\ command = "none"
    /\ tree = NoTree
    /\ tree0 = NoTree
    /\ ignored = {}
    /\ cwd = [is_local |-> TRUE, dirs |-> {}]
    /\ dry = FALSE
    /\ InitIdle

\* The reconciler alone, on every pair of snapshots within the bound.
InitRec ==
    /\ source \in Snapshots(MaxEntries)
    /\ target \in Snapshots(MaxEntries)
    /\ command = "none"
    /\ tree = NoTree
    /\ tree0 = NoTree
    /\ ignored = {}
    /\ cwd = [is_local |-> TRUE, dirs |-> {}]
    /\ dry = FALSE
    /\ flt = NoFilter
    /\ scn = NoScan
    /\ InitIdle

NextRec ==
    \/ Call
    \/ SortDirectories
    \/ MergeDirectories
    \/ SortFiles
    \/ MergeFiles
    \/ Return

SpecRec == InitRec /\ [][NextRec]_vars

\* The reconciler is straight-line code of one thread: a step that can be
\* taken is taken.
SpecRecFair == SpecRec /\ WF_vars(NextRec)

\* A run of the program: both endpoints are enumerated and filtered, the
\* Sync is computed and executed against the target endpoint.
Init ==
    /\ \E st \in Trees(MaxTree), tt \in Trees(MaxTree) :
         \E ign \in Ignores(st, tt) :
            /\ source = scan(st, {})
            /\ target = scan(tt, ign)
            /\ tree = tt
            /\ tree0 = tt
            /\ ignored = ign
    /\ command \in {"up", "down"}
    /\ cwd \in {[is_local |-> b, dirs |-> {}] : b \in BOOLEAN}
    /\ (command = "up" => cwd.is_local)
    /\ dry \in BOOLEAN
    /\ flt = NoFilter
    /\ scn = NoScan
    /\ InitIdle

Next ==
    \/ Call
    \/ SortDirectories
    \/ MergeDirectories
    \/ SortFiles
    \/ MergeFiles
    \/ Return
    \/ RunFails
    \/ PrintDry
    \/ Execute
    \/ NextStep
    \/ LocalRemoveFile
    \/ LocalRemoveDirectory
    \/ LocalCreateDirectory
    \/ Spawn
    \/ LocalWriteGet
    \/ RemoteWrite
    \/ CloseStdin
    \/ Wait
    \/ SftpRun
    \/ SftpExit
    \/ SftpAbort
    \/ Main

Spec == Init /\ [][Next]_vars

\* The steps of the program itself, which is one thread of straight-line
\* code, and the steps sftp takes while it runs.
Program ==
    \/ Call
    \/ SortDirectories
    \/ MergeDirectories
    \/ SortFiles
    \/ MergeFiles
    \/ Return
    \/ PrintDry
    \/ Execute
    \/ NextStep
    \/ LocalRemoveFile
    \/ LocalRemoveDirectory
    \/ LocalCreateDirectory
    \/ Spawn
    \/ LocalWriteGet
    \/ RemoteWrite
    \/ CloseStdin
    \/ Wait
    \/ Main

Session == SftpRun \/ SftpExit

\* A run in which the program takes the step it is at and sftp goes on
\* while it can; nothing makes a session fail that would not.
SpecLive == Spec /\ WF_vars(Program) /\ WF_vars(Session)

\* filter_by_gitignore alone, on every list of at most MaxFilter entries
\* with unique paths and every answer of git to each.
InitFilter ==
    /\ \E D \in SUBSET FilterPaths, FP \in SUBSET FilterPaths :
          /\ D \cap FP = {}
          /\ Cardinality(D) + Cardinality(FP) <= MaxFilter
          /\ \E ds \in Perms({Directory(d) : d \in D}),
                fs \in Perms({File(p, 1) : p \in FP}) :
                flt = [NoFilter EXCEPT !.directories = ds, !.files = fs,
                                       !.result = "none"]
    /\ scn = NoScan
    /\ NoRun

NextFilter ==
    \/ FilterDirectory
    \/ FilterFile
    \/ FilterWait

SpecFilter == InitFilter /\ [][NextFilter]_vars

\* from_remote_over_ssh alone, on every listing of at most MaxLines lines
\* and every exit status of the remote command.
RECURSIVE Listings(_)
Listings(n) ==
    IF n = 0 THEN {<<>>}
    ELSE Listings(n - 1)
           \cup {Append(l, e) : l \in {x \in Listings(n - 1) : Len(x) = n - 1},
                                e \in Reported \cup Garbage}

\* find reports a path once.
UniquePaths(l) ==
    \A j, k \in 1..Len(l) : (j # k /\ l[j].entry /\ l[k].entry) => l[j].path # l[k].path

InitScan ==
    /\ \E l \in {x \in Listings(MaxLines) : UniquePaths(x)}, st \in ExitStatuses :
          scn = [NoScan EXCEPT !.reported = l, !.status = st, !.pc = "wait"]
    /\ flt = NoFilter
    /\ NoRun

NextScan ==
    \/ ScanOutput
    \/ ScanLine
    \/ ScanReturn

SpecScan == InitScan /\ [][NextScan]_vars

----------------------------------------------------------------------------
(* Claims about Sync::unidirectional, checked under SpecRec.               *)

source_directory_paths == PathsOf(source.directories)
target_directory_paths == PathsOf(target.directories)
source_file_paths == PathsOf(source.files)
target_file_paths == PathsOf(target.files)

\* How often p occurs in the list l.
Count(l, p) == Cardinality({i \in 1..Len(l) : l[i] = p})

NoDuplicates(l) == \A i, j \in 1..Len(l) : i # j => l[i] # l[j]

\* p is a strict ancestor of q.
IsAncestor(p, q) == Len(p) < Len(q) /\ SubSeq(q, 1, Len(p)) = p

AncestorsFirst(l) ==
    \A i, j \in 1..Len(l) : IsAncestor(l[i], l[j]) => i < j

\* The source files the target lacks or holds with another size.
changed_files ==
    {f.path : f \in {g \in Range(source.files) :
                        \/ g.path \notin target_file_paths
                        \/ \E h \in Range(target.files) :
                              h.path = g.path /\ h.size # g.size}}

\* C6: the Sync returned for snapshots with unique paths is the set
\* difference of the two snapshots: create_directories holds the source
\* directories the target lacks, remove_directories the target directories
\* the source lacks, remove_files the target files the source lacks and
\* copy_files the source files that the target lacks or holds with another
\* size; a source file the target lacks is once in copy_files and neither in
\* create_directories nor in remove_files.
C6_SetDifference ==
    pc = "returned" =>
        /\ Range(sync.create_directories) = source_directory_paths \ target_directory_paths
        /\ Range(sync.remove_directories) = target_directory_paths \ source_directory_paths
        /\ Range(sync.remove_files) = target_file_paths \ source_file_paths
        /\ Range(sync.copy_files) = changed_files
        /\ \A p \in source_file_paths \ target_file_paths :
              /\ Count(sync.copy_files, p) = 1
              /\ p \notin Range(sync.create_directories)
              /\ p \notin Range(sync.remove_files)

\* C6 witness: a call returned a Sync with four non-empty lists.
C6_Witness ==
    /\ pc = "returned"
    /\ sync.create_directories # <<>>
    /\ sync.remove_directories # <<>>
    /\ sync.remove_files # <<>>
    /\ sync.copy_files # <<>>

\* C7: in the returned Sync a directory precedes each of its descendants in
\* create_directories and in remove_directories, whatever the order of the
\* entries of the snapshots.
C7_AncestorsFirst ==
    pc = "returned" =>
        /\ AncestorsFirst(sync.create_directories)
        /\ AncestorsFirst(sync.remove_directories)

\* C7 witness: the source lists a directory after one of its descendants and
\* both are to be created.
C7_Witness ==
    /\ pc = "returned"
    /\ \E i, j \in 1..Len(source.directories) :
          /\ i < j
          /\ IsAncestor(source.directories[j].path, source.directories[i].path)
          /\ {source.directories[i].path, source.directories[j].path}
                \subseteq Range(sync.create_directories)

\* C8: for snapshots with unique paths no list of the returned Sync holds a
\* path twice, and no path is both in remove_files and in copy_files.
C8_Disjoint ==
    pc = "returned" =>
        /\ NoDuplicates(sync.remove_files)
        /\ NoDuplicates(sync.remove_directories)
        /\ NoDuplicates(sync.create_directories)
        /\ NoDuplicates(sync.copy_files)
        /\ Range(sync.remove_files) \cap Range(sync.copy_files) = {}

\* C8 witness: a Sync that removes a file and copies a file whose size
\* differs on the two sides.
C8_Witness ==
    /\ pc = "returned"
    /\ sync.remove_files # <<>>
    /\ \E f \in Range(source.files), g \in Range(target.files) :
          f.path = g.path /\ f.size # g.size /\ f.path \in Range(sync.copy_files)

\* C9: a file present on both sides with equal size is neither in copy_files
\* nor in remove_files; a file present on both sides with different sizes is
\* in copy_files.
C9_SizeOnly ==
    pc = "returned" =>
        \A f \in Range(source.files), g \in Range(target.files) :
            f.path = g.path =>
                /\ f.size = g.size =>
                      /\ f.path \notin Range(sync.copy_files)
                      /\ f.path \notin Range(sync.remove_files)
                /\ f.size # g.size => f.path \in Range(sync.copy_files)

\* C9 witness: one file with equal sizes and one with different sizes.
C9_Witness ==
    /\ pc = "returned"
    /\ \E f \in Range(source.files), g \in Range(target.files) :
          f.path = g.path /\ f.size = g.size
    /\ \E f \in Range(source.files), g \in Range(target.files) :
          f.path = g.path /\ f.size # g.size

\* The snapshots that hold the entries of snapshot l in any order.
Reordered(l) ==
    {DirectoryScanList(ds, fs) :
        ds \in Perms(Range(l.directories)), fs \in Perms(Range(l.files))}

\* C10: the call never fails, and the Sync it returns is the one the function
\* returns for the same entries given in any other order.
C10_Deterministic ==
    /\ pc # "panicked"
    /\ pc = "returned" =>
          \A s2 \in Reordered(source), t2 \in Reordered(target) :
              unidirectional(s2, t2) = sync

\* C10 witness: a call returned for a source whose files are not in
\* ascending order and a target whose files are not either.
C10_Witness ==
    /\ pc = "returned"
    /\ source.files # sort_by_key(source.files)
    /\ target.files # sort_by_key(target.files)
    /\ sync.copy_files # <<>>
    /\ sync.remove_files # <<>>

----------------------------------------------------------------------------
(* Claims about the executors, checked under Spec.                         *)

\* The Sync that reconciling the source against the target tree as it is
\* now (enumerated and filtered again) would return.
again == unidirectional(source, scan(tree, ignored))

\* A path that is a directory of the target and a file of the source.
DirectoryBecomesFile ==
    PathsOf(target.directories) \cap PathsOf(source.files) # {}

\* The Sync was applied (not only printed) and the apply returned Ok.
applied == result = "ok" /\ ~dry

rank(c) ==
    CASE c = "remove_files"       -> 1
      [] c = "remove_directories" -> 2
      [] c = "create_directories" -> 3
      [] c = "copy_files"         -> 4

Categories(l) == {l[i].category : i \in 1..Len(l)}

\* C2: the operations of an execution, local or remote, are issued category
\* by category in the order remove files, remove directories, create
\* directories, copy files: no operation is issued after one of a later
\* category.
C2_FixedOrder ==
    \A i, j \in 1..Len(issued) :
        i < j => rank(issued[i].category) <= rank(issued[j].category)

\* C2 witness: a pull issued operations of all four categories.
C2_Witness ==
    /\ command = "down"
    /\ Categories(issued) = Loops

\* execute_local is past its three loops over the file system.
LocalAtCopy == command = "down" /\ step \in {"spawn", "copy_files", "wait"}

\* C3 as stated: once execute_local has run its create loop, every path of
\* create_directories is a directory under local_path, and the parent
\* directory of every file whose get was issued exists under local_path,
\* whatever the working directory is.
C3_ParentExistsAtCopy ==
    LocalAtCopy =>
        /\ Range(sync.create_directories) \subseteq tree.dirs
        /\ \A i \in 1..Len(issued) :
              (issued[i].category = "copy_files" /\ Len(issued[i].path) > 1)
                  => parent(issued[i].path) \in tree.dirs

\* C4: execute_local removes a directory of remove_directories only if it
\* has no entries when it is processed; a directory that has entries then is
\* left in place with its contents, and unless reading it fails it causes no
\* error and the execution goes on with the next operation.
C4_DirectoryGuard ==
    [][(command = "down" /\ step = "remove_directories" /\ in_loop
            /\ issued' # issued) =>
          LET d == list[idx.i]
              o == issued'[Len(issued')].outcome
          IN  /\ (d \in tree.dirs /\ d \notin tree'.dirs) => read_dir(tree, d) = {}
              /\ read_dir(tree, d) # {} =>
                    /\ tree' = tree
                    /\ o # "fault" =>
                          /\ o = "kept"
                          /\ result' = "none"
                          /\ pc' = pc
                          /\ idx' = next_i]_vars

\* C4 witness: a pull succeeded that removed one directory of
\* remove_directories and left another one, which holds an entry, in place.
C4_Witness ==
    /\ command = "down"
    /\ result = "ok"
    /\ \E i, j \in 1..Len(issued) :
          /\ issued[i].category = "remove_directories"
          /\ issued[i].outcome = "kept"
          /\ issued[i].path \in tree.dirs
          /\ read_dir(tree, issued[i].path) # {}
          /\ issued[j].category = "remove_directories"
          /\ issued[j].outcome = "done"
          /\ issued[j].path \notin tree.dirs

\* C5: execute_remote issues no directory removal, whatever
\* remove_directories holds, and every directory of the remote tree before
\* the push is a directory of it afterwards.
C5_NoRemoteDirectoryRemoval ==
    command = "up" =>
        /\ \A i \in 1..Len(stdin) : stdin[i].cmd \in {"rm", "mkdir", "put"}
        /\ "remove_directories" \notin Categories(issued)
        /\ tree0.dirs \subseteq tree.dirs

\* C5 witness: a push succeeded whose Sync held an empty directory to
\* remove, and removed a file.
C5_Witness ==
    /\ command = "up"
    /\ result = "ok"
    /\ sync.remove_files # <<>>
    /\ \E d \in Range(sync.remove_directories) :
          d \in tree.dirs /\ read_dir(tree, d) = {}

\* The operations of execute_local that are calls on the local file system.
FileSystemCalls == {"remove_files", "remove_directories", "create_directories"}

\* The operation logged at place i of a pull is a file-system call that failed.
LocalCallFailed(i) ==
    /\ command = "down"
    /\ issued[i].category \in FileSystemCalls
    /\ issued[i].outcome \in {"error", "fault"}

\* What the operation logged at place j did is still there.
EffectRemains(j) ==
    issued[j].outcome = "done" =>
        CASE issued[j].category = "remove_files" ->
                 issued[j].path \notin file_paths(tree)
          [] issued[j].category = "remove_directories" ->
                 issued[j].path \notin tree.dirs
          [] issued[j].category = "create_directories" ->
                 issued[j].path \in tree.dirs \cup cwd.dirs
          [] OTHER -> TRUE

\* C11: when a file-system call of execute_local fails, execute_local has
\* returned an error, the failed call is the last operation it issued, the
\* sftp process was never started, and what the earlier operations did
\* remains on the target.
C11_AbortWithoutRollback ==
    \A i \in 1..Len(issued) :
        LocalCallFailed(i) =>
            /\ i = Len(issued)
            /\ result = "err"
            /\ pc \in {"done", "exited"}
            /\ sftp.status = "none"
            /\ stdin = <<>>
            /\ \A j \in 1..(i - 1) : EffectRemains(j)

\* C11 witness: a call failed after an earlier call had changed the tree.
C11_Witness ==
    /\ Len(issued) >= 2
    /\ LocalCallFailed(Len(issued))
    /\ issued[1].outcome = "done"
    /\ tree # tree0

\* C12 as stated: when the process has exited after a run that failed, it
\* printed one diagnostic line to the error stream and its exit status is not
\* zero; its exit status is zero only when the run succeeded.
C12_FailureExit ==
    pc = "exited" =>
        /\ result = "err" => (exit.stderr = 1 /\ exit.status # 0)
        /\ exit.status = 0 => result = "ok"

\* The paths of the lines of stdout that carry a label, in the order printed.
printed(label) == SelectSeq(stdout, LAMBDA line : line.label = label)

\* C13: when the dry-run flag is set, for push and for pull, no executor is
\* entered: no operation is issued, no sftp process is started, nothing is
\* written to one, and the target tree and the working directory stay as
\* they were; once run has returned Ok, the Sync that was computed is what
\* was printed, list by list.
C13_DryRun ==
    dry =>
        /\ pc # "execute"
        /\ issued = <<>>
        /\ stdin = <<>>
        /\ sftp.status = "none"
        /\ tree = tree0
        /\ cwd.dirs = {}
        /\ result = "ok" =>
              /\ sync = unidirectional(source, target)
              /\ Len(stdout) = Len(sync.remove_files) + Len(sync.remove_directories)
                                + Len(sync.create_directories) + Len(sync.copy_files)
              /\ printed("remove file") = labelled("remove file", sync.remove_files)
              /\ printed("remove directory")
                     = labelled("remove directory", sync.remove_directories)
              /\ printed("create directory")
                     = labelled("create directory", sync.create_directories)
              /\ printed("copy file") = labelled("copy file", sync.copy_files)

\* C13 witness: a dry pull has exited whose Sync removes a file, creates a
\* directory and copies a file.
C13_Witness ==
    /\ dry
    /\ command = "down"
    /\ pc = "exited"
    /\ result = "ok"
    /\ sync.remove_files # <<>>
    /\ sync.create_directories # <<>>
    /\ sync.copy_files # <<>>
    /\ Len(stdout) >= 3

----------------------------------------------------------------------------
(* Claims about filter_by_gitignore, checked under SpecFilter.             *)

\* The answer git gave for the entry of the input that has path p.
answer_for(p) ==
    LET entries == flt.directories \o flt.files
    IN  flt.answers[CHOOSE k \in 1..Len(entries) : entries[k].path = p]

\* The path is the .git directory or nested under it.
InGitDir(p) == p # <<>> /\ p[1] = ".git"

\* The answer carries an empty pattern or one that begins with '!'.
PatternKeeps(a) == a.pattern = <<>> \/ Head(a.pattern) = "!"

ShouldKeep(e) == PatternKeeps(answer_for(e.path)) /\ ~InGitDir(e.path)

\* C14 as stated: when filter_by_gitignore returns a snapshot, its lists are
\* the entries of the input lists, in the input's order, whose answer
\* carries an empty pattern or a pattern beginning with '!' and whose path is
\* neither .git nor nested under it.
C14_FilterDecision ==
    flt.result = "ok" =>
        /\ flt.matched_directories = SelectSeq(flt.directories, ShouldKeep)
        /\ flt.matched_files = SelectSeq(flt.files, ShouldKeep)

----------------------------------------------------------------------------
(* Claims about from_remote_over_ssh, checked under SpecScan.              *)

\* The value of a size as find printed it.
RECURSIVE value_of(_)
value_of(size) ==
    IF size = <<>> THEN 0
    ELSE 10 * value_of(SubSeq(size, 1, Len(size) - 1))
           + (CHOOSE d \in 0..9 : Digits[d + 1] = size[Len(size)])

\* Every entry the listing reported is in the snapshot.
NothingMissed ==
    \A k \in 1..Len(scn.reported) :
        LET e == scn.reported[k]
        IN  e.entry =>
              IF e.type = "f"
              THEN File(e.path, value_of(e.size)) \in Range(scn.files)
              ELSE Directory(e.path) \in Range(scn.directories)

\* C15 as stated: from_remote_over_ssh returns an error when the remote
\* command exited non-zero and when a line of its output is not an entry
\* (path, type f or d, size); a snapshot it returns holds every file and
\* every directory the listing reported.
C15_AllOrNothing ==
    scn.pc = "done" =>
        /\ scn.status # "0" => scn.result = "err"
        /\ (\E k \in 1..Len(scn.reported) : ~scn.reported[k].entry) => scn.result = "err"
        /\ scn.result = "ok" => NothingMissed

----------------------------------------------------------------------------
(* More claims about the executors, checked under Spec.                    *)

\* One instruction of a kind per path of a list, in the order of the list.
instructions(cmd, l) == [i \in 1..Len(l) |-> [cmd |-> cmd, path |-> l[i]]]

\* The batch of a Sync for a remote target.
Batch ==
    instructions("rm", sync.remove_files)
        \o instructions("mkdir", sync.create_directories)
        \o instructions("put", sync.copy_files)

\* C16: what execute_remote has written to the sftp process is at any time
\* the beginning of one batch: an rm per path of remove_files, then a mkdir
\* per path of create_directories, then a put per path of copy_files, each
\* group in the order of its list; when all instructions were written (the
\* executor waits for the session, or has returned Ok) it is the whole
\* batch, and there was one session.
C16_RemoteBatch ==
    command = "up" =>
        /\ Len(stdin) <= Len(Batch)
        /\ stdin = SubSeq(Batch, 1, Len(stdin))
        /\ ((pc = "execute" /\ step = "wait") \/ applied) => stdin = Batch
        /\ stdin # <<>> => sftp.status # "none"

\* C16 witness: a push has written its whole batch, which holds an rm, a
\* mkdir and two puts, and waits for the session.
C16_Witness ==
    /\ command = "up"
    /\ pc = "execute"
    /\ step = "wait"
    /\ sync.remove_files # <<>>
    /\ sync.create_directories # <<>>
    /\ Len(sync.copy_files) >= 2
    /\ stdin = Batch

\* The tree after a session has performed instructions one after the other.
RECURSIVE performed(_, _)
performed(t, batch) ==
    IF batch = <<>> THEN t
    ELSE performed(sftp_apply(t, Head(batch)).tree, Tail(batch))

\* The file the get at place k of the batch fetched is on the target.
Fetched(k) ==
    \E f \in tree.files :
        /\ f.path \in {stdin[k].path,
                       Append(stdin[k].path, stdin[k].path[Len(stdin[k].path)])}
        /\ f.size = source_size(stdin[k].path)

\* What the session performed is on the target: a remote tree is what the
\* instructions performed made of the tree before the push, a local tree
\* holds every file fetched.
SessionEffectRemains ==
    /\ command = "up" => tree = performed(tree0, SubSeq(stdin, 1, sftp.pos))
    /\ command = "down" => \A k \in 1..sftp.pos : Fetched(k)

\* The executor waited for the session and returned.
ReturnedFromWait == pc \in {"done", "exited"} /\ sftp.closed

\* C17: when an executor, local or remote, has written all its instructions
\* and returned, it returned Ok if and only if sftp exited with success and
\* Err when sftp exited with a failure; what the instructions the session
\* performed did is still there, and the return itself changes nothing on
\* the target.
C17_SessionStatus ==
    /\ [](ReturnedFromWait =>
             /\ result = "ok" <=> sftp.status = "ok"
             /\ sftp.status = "failed" => result = "err"
             /\ SessionEffectRemains)
    /\ [][(sftp.closed /\ pc' # "execute") => tree' = tree]_vars

\* C17 witness: a pull returned an error because the session failed after it
\* had performed an instruction that changed the tree.
C17_Witness ==
    /\ ReturnedFromWait
    /\ command = "down"
    /\ result = "err"
    /\ sftp.status = "failed"
    /\ sftp.pos >= 1
    /\ tree # tree0

\* What the Sync removes from inside directory d.
RemovedInside(d) ==
    {q \in Range(sync.remove_files) \cup Range(sync.remove_directories) :
        IsAncestor(d, q)}

\* The subtree of d holds nothing the target snapshot does not list.
NothingUntrackedIn(d) == \A q \in ignored : ~IsAncestor(d, q) /\ q # d

\* C18 as stated: when execute_local processes a directory of
\* remove_directories, nothing the Sync removes from inside it is left on
\* the target; and after a successful execute_local no directory of
\* remove_directories whose subtree holds no untracked content exists.
C18_NestedRemoval ==
    command = "down" =>
        /\ (pc = "execute" /\ step = "remove_directories" /\ in_loop) =>
              RemovedInside(list[idx.i]) \cap entry_paths(tree) = {}
        /\ applied =>
              \A d \in Range(sync.remove_directories) :
                  NothingUntrackedIn(d) => d \notin tree.dirs

\* The paths that are a file of the target snapshot and a directory of the
\* source snapshot.
FileBecomesDirectory == PathsOf(target.files) \cap PathsOf(source.directories)

\* The places of the log where an operation of a category on a path is.
IssuedAt(category, p) ==
    {i \in 1..Len(issued) : issued[i].category = category /\ issued[i].path = p}

\* C19 as stated: a path that is a file of the target snapshot and a
\* directory of the source snapshot is in remove_files and in
\* create_directories; its removal is issued before its creation by both
\* executors; after a successful apply it is a directory of the target; and
\* no removal of a path is issued after a creation of that path.
C19_ChangeOfKind ==
    /\ \A p \in FileBecomesDirectory :
          /\ p \in Range(unidirectional(source, target).remove_files)
          /\ p \in Range(unidirectional(source, target).create_directories)
          /\ pc \in {"returned", "execute"} => sync = unidirectional(source, target)
          /\ \A i \in IssuedAt("create_directories", p) :
                \E j \in IssuedAt("remove_files", p) : j < i
          /\ applied => p \in tree.dirs
    /\ \A i, j \in 1..Len(issued) :
          (/\ issued[i].category = "create_directories"
           /\ issued[j].category \in {"remove_files", "remove_directories"}
           /\ issued[i].path = issued[j].path) => j < i

----------------------------------------------------------------------------
(* More claims about Sync::unidirectional, checked under SpecRec.          *)

\* Path p is before path q, compared component by component: at the first
\* place where they differ p has the lesser component, or p ends there.
PathLess(p, q) ==
    \E k \in 1..(Len(q)) :
        /\ \A j \in 1..(k - 1) : j <= Len(p) /\ p[j] = q[j]
        /\ (k = Len(p) + 1 \/ (k <= Len(p) /\ p[k] < q[k]))

StrictlyAscending(l) == \A i \in 1..(Len(l) - 1) : PathLess(l[i], l[i + 1])

\* C20: each of the four lists of the Sync that unidirectional returns is in
\* strictly ascending order of path, whatever the order of the entries of
\* the two snapshots.
C20_SortedOutput ==
    pc = "returned" =>
        /\ StrictlyAscending(sync.remove_files)
        /\ StrictlyAscending(sync.remove_directories)
        /\ StrictlyAscending(sync.create_directories)
        /\ StrictlyAscending(sync.copy_files)

\* C20 witness: a call returned two directories to create and two
\* directories to remove for snapshots that listed them in descending order.
C20_Witness ==
    /\ pc = "returned"
    /\ Len(sync.create_directories) = 2
    /\ Len(sync.remove_directories) = 2
    /\ PathLess(source.directories[2].path, source.directories[1].path)
    /\ PathLess(target.directories[2].path, target.directories[1].path)

----------------------------------------------------------------------------
(* Claims about ignored content, frames and termination.                   *)

\* The paths of the four lists of a Sync.
planned(sy) ==
    Range(sy.remove_files) \cup Range(sy.remove_directories)
        \cup Range(sy.create_directories) \cup Range(sy.copy_files)

\* The files of the target that the ignore filter dropped from its snapshot.
ignored_files(t) == {f \in t.files : f.path \in ignored}

\* C21 as stated: no path the ignore filter dropped is in a list of the
\* Sync, and every ignored file the target held before the apply is there,
\* with the size it had, at every moment of the apply and after it.
C21_IgnoredUntouched ==
    /\ planned(sync) \cap ignored = {}
    /\ planned(unidirectional(source, target)) \cap ignored = {}
    /\ ignored_files(tree0) \subseteq tree.files

\* Queue q2 is queue q1 or what is left of it when its front is taken.
SameOrPopped(q1, q2) == q2 = q1 \/ (q1 # <<>> /\ q2 = Tail(q1))

\* List l2 is list l1 or l1 with the path of the front of queue q at its end.
SameOrPushed(l1, l2, q) == l2 = l1 \/ (q # <<>> /\ l2 = Append(l1, q[1].path))

\* One iteration of a merge loop over the queues sq and tq, which pushes
\* source paths on sl and target paths on tl: a queue loses its front or
\* stays, at least one loses it, at most one path is pushed, and it is the
\* path of an entry taken from its queue.
Iteration(sq, tq, sl, tl) ==
    /\ SameOrPopped(frame[sq], frame'[sq])
    /\ SameOrPopped(frame[tq], frame'[tq])
    /\ Len(frame'[sq]) + Len(frame'[tq]) < Len(frame[sq]) + Len(frame[tq])
    /\ SameOrPushed(frame[sl], frame'[sl], frame[sq])
    /\ SameOrPushed(frame[tl], frame'[tl], frame[tq])
    /\ Len(frame'[sl]) + Len(frame'[tl]) <= Len(frame[sl]) + Len(frame[tl]) + 1
    /\ frame'[sl] # frame[sl] => frame'[sq] # frame[sq]
    /\ frame'[tl] # frame[tl] => frame'[tq] # frame[tq]

\* What is queued and what was pushed is never more than what was given.
Bounded(sq, tq, sl, tl, given) ==
    Len(frame[sq]) + Len(frame[tq]) + Len(frame[sl]) + Len(frame[tl]) <= given

\* C22: every iteration of a merge loop that does not exit takes the front
\* off the source queue, the target queue or both, and pushes at most one
\* path, that of an entry it took; so a loop runs at most |source| +
\* |target| times, the function returns, and all four queues are empty then.
C22_MergeTerminates ==
    /\ [][/\ (pc = "merge_directories" /\ ~directories_done(frame)) =>
                Iteration("source_directories", "target_directories",
                          "create_directories", "remove_directories")
          /\ (pc = "merge_files" /\ ~files_done(frame)) =>
                Iteration("source_files", "target_files", "copy_files", "remove_files")]_vars
    /\ [](/\ pc # "panicked"
          /\ pc = "merge_directories" =>
                Bounded("source_directories", "target_directories",
                        "create_directories", "remove_directories",
                        Len(source.directories) + Len(target.directories))
          /\ pc = "merge_files" =>
                Bounded("source_files", "target_files", "copy_files", "remove_files",
                        Len(source.files) + Len(target.files))
          /\ pc = "returned" => (directories_done(frame) /\ files_done(frame)))
    /\ <>(pc = "returned")

\* C22 witness: the file loop, given three files or more, is at its last
\* iteration and has pushed one path.
C22_Witness ==
    /\ pc = "merge_files"
    /\ Len(frame.source_files) + Len(frame.target_files) = 1
    /\ Len(source.files) + Len(target.files) >= 3
    /\ Len(frame.copy_files) = 1

\* A path is a directory in one snapshot and a file in the other.
KindCollision ==
    \/ PathsOf(target.directories) \cap PathsOf(source.files) # {}
    \/ PathsOf(target.files) \cap PathsOf(source.directories) # {}

\* C23: after a successful execute_remote for snapshots without a kind
\* collision, reconciling the same source against the remote tree as it is
\* then yields empty remove_files, create_directories and copy_files, and
\* the remove_directories of the Sync that was applied.
C23_PushConverges ==
    (command = "up" /\ applied /\ ~KindCollision) =>
        again = [NoSync EXCEPT !.remove_directories = sync.remove_directories]

\* C23 witness: a push without kind collision that created a directory and
\* copied a file succeeded, and its Sync had a directory to remove.
C23_Witness ==
    /\ command = "up"
    /\ applied
    /\ ~KindCollision
    /\ sync.create_directories # <<>>
    /\ sync.copy_files # <<>>
    /\ sync.remove_directories # <<>>
    /\ again # NoSync

\* The paths at which two trees differ: an entry there is in one only, or
\* is a file of another size.
changed_paths(t1, t2) ==
    {p \in entry_paths(t1) \cup entry_paths(t2) :
        \/ (p \in t1.dirs) # (p \in t2.dirs)
        \/ {f \in t1.files : f.path = p} # {f \in t2.files : f.path = p}}

\* C24 as stated: at every moment of an apply and after it, whether it
\* succeeds or fails, the target tree differs from what it was only at
\* paths of the Sync, and every file of the target whose path is in neither
\* remove_files nor copy_files is there with its size. (No operation of an
\* executor writes to the source endpoint: put reads it, get reads it.)
C24_Frame ==
    LET plan == unidirectional(source, target)
    IN  /\ changed_paths(tree0, tree) \subseteq planned(plan)
        /\ \A f \in tree0.files :
              f.path \notin Range(plan.remove_files) \cup Range(plan.copy_files)
                  => f \in tree.files

\* C25 as stated: a pull that entered execute_local returns from it.
C25_PullReturns ==
    (command = "down" /\ pc = "execute") ~> (pc \in {"done", "exited"})

====
